---- MODULE Spec2Model ----
(***************************************************************************)
(* Model of the Naver dashboards (src/dashboard.py and                     *)
(* src/outerwear_dashboard.py): the five cached fetch operations, the      *)
(* st.cache_data(ttl=600) memoisation around them, the title clean-up and  *)
(* the loop that builds the combined shopping table.                       *)
(***************************************************************************)
EXTENDS Integers, Sequences, FiniteSets, TLC

VARIABLES CLIENT_ID, CLIENT_SECRET, now, cache, ran, last, calls, titles,
          session, run, page

vars == <<CLIENT_ID, CLIENT_SECRET, now, cache, ran, last, calls, titles,
          session, run, page>>

(* ---------------------------- bounds ----------------------------------- *)
MaxCalls == 2
MaxBatchCalls == 1
MaxKw == 7
MaxRuns == 2
MaxTitleLen == 6
MaxTextLen == 3
MaxTime == 900

(* ------------------------- program constants --------------------------- *)
TTL == 600
MaxGroups == 5

None == "None"

\* Python truthiness of an optional string: None and "" are both falsy.
Truthy(s) == s # None /\ s # ""

(* --------------------------- result values ----------------------------- *)
NoTable == [isNone |-> TRUE, cols |-> {}, rows |-> <<>>]
Table(cols, rows) == [isNone |-> FALSE, cols |-> cols, rows |-> rows]

NoErr == [isNone |-> TRUE, msg |-> "", status |-> 0, text |-> ""]
Err(msg, status, text) == [isNone |-> FALSE, msg |-> msg, status |-> status, text |-> text]

\* A call of a fetch body either returns the pair (table, err) or raises.
Ret(t, e) == [kind |-> "return", table |-> t, err |-> e, exc |-> ""]
Raise(x) == [kind |-> "raise", table |-> NoTable, err |-> NoErr, exc |-> x]

(* ------------------------- upstream behaviour -------------------------- *)
\* What the upstream does with one request: the connection fails, or it
\* answers with a status and a body; a body is JSON or not, has the list
\* field (results / items) or not, and the list has entries or not.
Resp(conn, status, text, isJson, hasList, list) ==
  [conn |-> conn, status |-> status, text |-> text, isJson |-> isJson,
   hasList |-> hasList, list |-> list]

ConnFail == Resp(FALSE, 0, "", FALSE, FALSE, <<>>)

Point(p, r) == [period |-> p, ratio |-> r]
Entry(title, hasData, data) == [title |-> title, hasData |-> hasData, data |-> data]

SampleData == <<Point("2025-01-01", 40), Point("2025-01-02", 100)>>

\* One result entry per keyword group of the request, titled by the group.
ResultsFor(groups) ==
  [i \in 1..Len(groups) |-> Entry(groups[i].groupName, TRUE, SampleData)]

\* Results that differ in length: one point, none, two, under titles
\* that repeat.
UnevenResults ==
  << Entry("k2", TRUE, <<Point("2025-01-03", 7)>>),
     Entry("k1", TRUE, <<>>),
     Entry("k2", TRUE, SampleData) >>

TrendResponses(groups) ==
  { ConnFail,
    Resp(TRUE, 200, "{results:[uneven]}", TRUE, TRUE, UnevenResults),
    Resp(TRUE, 401, "unauthorized", TRUE, FALSE, <<>>),
    Resp(TRUE, 200, "<html>", FALSE, FALSE, <<>>),
    Resp(TRUE, 200, "{}", TRUE, FALSE, <<>>),
    Resp(TRUE, 200, "{results:[]}", TRUE, TRUE, <<>>),
    Resp(TRUE, 200, "{results:[{title}]}", TRUE, TRUE, <<Entry("k1", FALSE, <<>>)>>),
    Resp(TRUE, 200, "{results:[...]}", TRUE, TRUE, ResultsFor(groups)) }

Item(title, lprice) == [title |-> title, lprice |-> lprice]
ItemCols == {"title", "lprice", "mallName", "category1", "link", "brand", "bloggername", "postdate"}

ItemResponses ==
  { ConnFail,
    Resp(TRUE, 500, "server error", FALSE, FALSE, <<>>),
    Resp(TRUE, 200, "<html>", FALSE, FALSE, <<>>),
    Resp(TRUE, 200, "{}", TRUE, FALSE, <<>>),
    Resp(TRUE, 200, "{items:[]}", TRUE, TRUE, <<>>),
    Resp(TRUE, 200, "{items:[...]}", TRUE, TRUE, <<Item("<b>A</b>", "5000")>>) }

(* ------------------------------ requests ------------------------------- *)
Group(k) == [groupName |-> k, keywords |-> <<k>>]
KeywordGroups(keywords) == [i \in 1..Len(keywords) |-> Group(keywords[i])]

\* The header values are the two credentials as loaded, present or not.
HEADERS == [id |-> CLIENT_ID, secret |-> CLIENT_SECRET]

TrendRequest(keywords) ==
  [url |-> "datalab/search", headers |-> HEADERS,
   groups |-> KeywordGroups(keywords), query |-> ""]
ItemRequest(url, keyword) ==
  [url |-> url, headers |-> HEADERS, groups |-> <<>>, query |-> keyword]

Take(s, n) == IF Len(s) > n THEN SubSeq(s, 1, n) ELSE s

(* ---------------------------- normalisation ---------------------------- *)
\* pd.DataFrame(r['data']) with the keyword column set to r['title'].
EntryRows(e) ==
  [j \in 1..Len(e.data) |->
     [period |-> e.data[j].period, ratio |-> e.data[j].ratio, keyword |-> e.title]]

\* ConcatRows that puts each new frame in front of the earlier ones.
RECURSIVE ConcatRows_Reversed(_)
ConcatRows_Reversed(entries) ==
  IF entries = <<>> THEN <<>>
  ELSE ConcatRows_Reversed(Tail(entries)) \o EntryRows(Head(entries))

RECURSIVE ConcatRows(_)
ConcatRows(entries) ==
  IF entries = <<>> THEN <<>>
  ELSE EntryRows(Head(entries)) \o ConcatRows(Tail(entries))

TrendCols == {"period", "ratio", "keyword"}

\* pd.DataFrame(items): no columns at all when the list is empty.
ItemTable(items) == Table(IF items = <<>> THEN {} ELSE ItemCols, items)

(* ---------------------------- fetch bodies ----------------------------- *)
\* Each body yields the requests it sent and how it ended.
Done(reqs, result) == [reqs |-> reqs, result |-> result]

fetch_realtime_trend(keywords, resp) ==
  IF ~Truthy(CLIENT_ID) THEN Done(<<>>, Ret(NoTable, Err("API Key", 0, "")))
  ELSE LET req == TrendRequest(keywords) IN
    IF ~resp.conn THEN Done(<<req>>, Raise("ConnectionError"))
    ELSE IF resp.status = 200 THEN
      IF ~resp.isJson THEN Done(<<req>>, Raise("JSONDecodeError"))
      ELSE IF ~resp.hasList THEN Done(<<req>>, Raise("KeyError"))
      ELSE IF \E i \in 1..Len(resp.list) : ~resp.list[i].hasData
        THEN Done(<<req>>, Raise("KeyError"))
      ELSE IF resp.list = <<>> THEN Done(<<req>>, Raise("ValueError"))
      ELSE Done(<<req>>, Ret(Table(TrendCols, ConcatRows(resp.list)), NoErr))
    ELSE Done(<<req>>, Ret(NoTable, Err("Trend API Error: ", resp.status, "")))

\* fetch_item that sends the request a second time when the first try
\* did not give a 200 response.
fetch_item_Retry(url, prefix, keyword, resp) ==
  IF ~Truthy(CLIENT_ID) THEN Done(<<>>, Ret(NoTable, Err("API Key", 0, "")))
  ELSE LET req == ItemRequest(url, keyword) IN
    IF ~resp.conn THEN Done(<<req, req>>, Raise("ConnectionError"))
    ELSE IF resp.status = 200 THEN
      IF ~resp.isJson THEN Done(<<req>>, Raise("JSONDecodeError"))
      ELSE IF ~resp.hasList THEN Done(<<req>>, Raise("KeyError"))
      ELSE Done(<<req>>, Ret(ItemTable(resp.list), NoErr))
    ELSE Done(<<req, req>>, Ret(NoTable, Err(prefix, resp.status, "")))

\* fetch_item with an error text that leaves the status code out.
fetch_item_NoStatus(url, prefix, keyword, resp) ==
  IF ~Truthy(CLIENT_ID) THEN Done(<<>>, Ret(NoTable, Err("API Key", 0, "")))
  ELSE LET req == ItemRequest(url, keyword) IN
    IF ~resp.conn THEN Done(<<req>>, Raise("ConnectionError"))
    ELSE IF resp.status = 200 THEN
      IF ~resp.isJson THEN Done(<<req>>, Raise("JSONDecodeError"))
      ELSE IF ~resp.hasList THEN Done(<<req>>, Raise("KeyError"))
      ELSE Done(<<req>>, Ret(ItemTable(resp.list), NoErr))
    ELSE Done(<<req>>, Ret(NoTable, Err(prefix, 0, "")))

\* The body shared by the three item fetches (shop, blog, shop search).
fetch_item(url, prefix, keyword, resp) ==
  IF ~Truthy(CLIENT_ID) THEN Done(<<>>, Ret(NoTable, Err("API Key", 0, "")))
  ELSE LET req == ItemRequest(url, keyword) IN
    IF ~resp.conn THEN Done(<<req>>, Raise("ConnectionError"))
    ELSE IF resp.status = 200 THEN
      IF ~resp.isJson THEN Done(<<req>>, Raise("JSONDecodeError"))
      ELSE IF ~resp.hasList THEN Done(<<req>>, Raise("KeyError"))
      ELSE Done(<<req>>, Ret(ItemTable(resp.list), NoErr))
    ELSE Done(<<req>>, Ret(NoTable, Err(prefix, resp.status, "")))

fetch_realtime_shopping(keyword, resp) ==
  fetch_item("search/shop.json?display=100", "Shopping API Error: ", keyword, resp)

fetch_realtime_blog(keyword, resp) ==
  fetch_item("search/blog.json?display=100", "Blog API Error: ", keyword, resp)

fetch_shop_search(keyword, resp) ==
  fetch_item("search/shop.json?display=100&sort=sim", "Shop API Error: ", keyword, resp)

\* fetch_datalab_trend without the cut to the first five keywords.
fetch_datalab_trend_NoCut(keywords, resp) ==
  IF ~Truthy(CLIENT_ID) THEN Done(<<>>, Ret(NoTable, Err("API Key", 0, "")))
  ELSE LET kws == keywords
           req == TrendRequest(kws) IN
    IF ~resp.conn THEN Done(<<req>>, Ret(NoTable, Err("ConnectionError", 0, "")))
    ELSE IF resp.status = 200 THEN
      IF ~resp.isJson THEN Done(<<req>>, Ret(NoTable, Err("JSONDecodeError", 0, "")))
      ELSE LET results == IF resp.hasList THEN resp.list ELSE <<>> IN
        IF \E i \in 1..Len(results) : ~results[i].hasData
          THEN Done(<<req>>, Ret(NoTable, Err("KeyError", 0, "")))
        ELSE IF results # <<>>
          THEN Done(<<req>>, Ret(Table(TrendCols, ConcatRows(results)), NoErr))
        ELSE Done(<<req>>, Ret(Table({}, <<>>), Err("no data", 0, "")))
    ELSE Done(<<req>>, Ret(NoTable, Err("API Error: ", resp.status, resp.text)))

fetch_datalab_trend(keywords, resp) ==
  IF ~Truthy(CLIENT_ID) THEN Done(<<>>, Ret(NoTable, Err("API Key", 0, "")))
  ELSE LET kws == Take(keywords, MaxGroups)
           req == TrendRequest(kws) IN
    IF ~resp.conn THEN Done(<<req>>, Ret(NoTable, Err("ConnectionError", 0, "")))
    ELSE IF resp.status = 200 THEN
      IF ~resp.isJson THEN Done(<<req>>, Ret(NoTable, Err("JSONDecodeError", 0, "")))
      ELSE LET results == IF resp.hasList THEN resp.list ELSE <<>> IN
        IF \E i \in 1..Len(results) : ~results[i].hasData
          THEN Done(<<req>>, Ret(NoTable, Err("KeyError", 0, "")))
        ELSE IF results # <<>>
          THEN Done(<<req>>, Ret(Table(TrendCols, ConcatRows(results)), NoErr))
        ELSE Done(<<req>>, Ret(Table({}, <<>>), Err("no data", 0, "")))
    ELSE Done(<<req>>, Ret(NoTable, Err("API Error: ", resp.status, resp.text)))

(* ------------------------- consumers of a result ----------------------- *)
\* What the script does with the pair a fetch returned: shows the error,
\* renders the table, shows nothing, or dies on an exception.
TrendNeeds == {"period", "ratio", "keyword"}
ShopNeeds == {"lprice", "title", "mallName", "category1", "link"}
BlogNeeds == {"title", "postdate", "bloggername", "link"}
OuterShopNeeds == {"lprice", "title", "mallName", "brand", "category1"}

Empty(t) == t.rows = <<>> \/ t.cols = {}

\* dashboard.py: if err: st.error(err) / elif df is not None: <use columns>
ConsumeRealtime(needs, result) ==
  IF result.kind = "raise" THEN "raise"
  ELSE IF ~result.err.isNone THEN "error"
  ELSE IF ~result.table.isNone
    THEN IF needs \subseteq result.table.cols THEN "rendered" ELSE "raise"
  ELSE "nothing"

\* outerwear_dashboard.py: ... / elif df is not None and not df.empty: ...
ConsumeOuter(needs, result) ==
  IF result.kind = "raise" THEN "raise"
  ELSE IF ~result.err.isNone THEN "error"
  ELSE IF ~result.table.isNone /\ ~Empty(result.table)
    THEN IF needs \subseteq result.table.cols THEN "rendered" ELSE "raise"
  ELSE "nothing"

Consume(op, result) ==
  CASE op = "fetch_realtime_trend" -> ConsumeRealtime(TrendNeeds, result)
    [] op = "fetch_realtime_shopping" -> ConsumeRealtime(ShopNeeds, result)
    [] op = "fetch_realtime_blog" -> ConsumeRealtime(BlogNeeds, result)
    [] op = "fetch_datalab_trend" -> ConsumeOuter(TrendNeeds, result)
    [] OTHER -> ConsumeOuter(OuterShopNeeds, result)

(* ------------------------- st.cache_data(ttl=600) ---------------------- *)
Key(op, args) == [op |-> op, args |-> args]

Live(c, key, t) == key \in DOMAIN c /\ t - c[key].createdAt < TTL

Put(c, key, v) == [k \in DOMAIN c \cup {key} |-> IF k = key THEN v ELSE c[k]]

\* One call through the memoising wrapper at time t with cache c.  A live
\* entry is returned with no call of the body; otherwise the body runs, and
\* what it RETURNS is stored with the current time.  An exception is passed
\* on to the caller and leaves the cache as it was.
CachedCall(c, t, op, args, done) ==
  LET key == Key(op, args)
      hit == Live(c, key, t)
  IN [hit |-> hit,
      result |-> IF hit THEN c[key].value ELSE done.result,
      reqs |-> IF hit THEN <<>> ELSE done.reqs,
      cache |-> IF ~hit /\ done.result.kind = "return"
                  THEN Put(c, key, [value |-> done.result, createdAt |-> t])
                  ELSE c]

NoResp == Resp(FALSE, -1, "", FALSE, FALSE, <<>>)
NoRun == [at |-> -1, result |-> Raise("none"), nreqs |-> 0]

\* The latest run of the body for a key (not a model of the program: a
\* record of what happened, kept to state the properties of the cache).
PrevRun(key) == IF key \in DOMAIN ran THEN ran[key] ELSE NoRun

\* A call of a fetch operation by the script, and what the script does
\* with the result.  input is the keyword list the caller started from.
Call(op, input, args, done, resp) ==
  LET key == Key(op, args)
      r == CachedCall(cache, now, op, args, done)
  IN /\ calls' = calls + 1
     /\ cache' = r.cache
     /\ ran' = IF r.hit THEN ran
               ELSE Put(ran, key, [at |-> now, result |-> r.result, nreqs |-> Len(r.reqs)])
     /\ last' = [op |-> op, input |-> input, args |-> args, t |-> now, hit |-> r.hit,
                 reqs |-> r.reqs, result |-> r.result,
                 resp |-> IF r.reqs = <<>> THEN NoResp ELSE resp,
                 prev |-> PrevRun(key),
                 prevCreatedAt |-> IF key \in DOMAIN cache THEN cache[key].createdAt ELSE -1,
                 shown |-> Consume(op, r.result)]
     /\ UNCHANGED <<CLIENT_ID, CLIENT_SECRET, now, titles, session, run, page>>

(* ------------------------------ inputs --------------------------------- *)
Credentials == {None, "cred"}
Keywords == {"k1"}
TrendArgs == {<<"k1", "k2">>}
TickSteps == {300, 599}

NoCall == [op |-> "none", input |-> <<>>, args |-> <<>>, t |-> 0, hit |-> FALSE,
           reqs |-> <<>>, result |-> Raise("none"), resp |-> NoResp, prev |-> NoRun,
           prevCreatedAt |-> -1, shown |-> "nothing"]

NoTitles == [by |-> "none", raw |-> <<>>, clean |-> <<>>]

(* ------------------------------ actions -------------------------------- *)
\* The module is loaded: the credentials are read, nothing is cached.
Loaded ==
  /\ CLIENT_ID \in Credentials
  /\ CLIENT_SECRET \in Credentials
  /\ now = 0
  /\ cache = <<>>
  /\ ran = <<>>
  /\ last = NoCall
  /\ calls = 0

\* st.session_state of the outerwear dashboard: the keys it holds and
\* their values.
NoSession ==
  [has_trend |-> FALSE, outer_trend |-> NoTable, outer_err |-> NoErr,
   outer_selected |-> <<>>, has_full |-> FALSE, full_shop_df |-> NoTable]

NoScriptRun ==
  [ran |-> FALSE, stopped |-> FALSE, raised |-> FALSE, loop |-> FALSE,
   keywords |-> <<>>, shown |-> {}, ok |-> <<>>, failed |-> <<>>]

\* One run of dashboard.py: the text typed, what it was parsed to, the
\* requests the run sent and whether it ended in an exception.
NoPage ==
  [ran |-> FALSE, text |-> <<>>, keywords |-> <<>>, main_kw |-> <<>>,
   reqs |-> <<>>, raised |-> FALSE, trend |-> Raise("none")]

Init ==
  /\ Loaded /\ titles = NoTitles /\ session = NoSession /\ run = NoScriptRun
  /\ page = NoPage

FetchRealtimeTrend ==
  /\ calls < MaxCalls
  /\ \E kws \in TrendArgs : \E resp \in TrendResponses(KeywordGroups(kws)) :
       Call("fetch_realtime_trend", kws, kws, fetch_realtime_trend(kws, resp), resp)

FetchRealtimeShopping ==
  /\ calls < MaxCalls
  /\ \E k \in Keywords : \E resp \in ItemResponses :
       Call("fetch_realtime_shopping", <<k>>, <<k>>, fetch_realtime_shopping(k, resp), resp)

FetchRealtimeBlog ==
  /\ calls < MaxCalls
  /\ \E k \in Keywords : \E resp \in ItemResponses :
       Call("fetch_realtime_blog", <<k>>, <<k>>, fetch_realtime_blog(k, resp), resp)

FetchDatalabTrend ==
  /\ calls < MaxCalls
  /\ \E kws \in TrendArgs : \E resp \in TrendResponses(KeywordGroups(Take(kws, MaxGroups))) :
       Call("fetch_datalab_trend", kws, kws, fetch_datalab_trend(kws, resp), resp)

FetchShopSearch ==
  /\ calls < MaxCalls
  /\ \E k \in Keywords : \E resp \in ItemResponses :
       Call("fetch_shop_search", <<k>>, <<k>>, fetch_shop_search(k, resp), resp)

\* Time passes between calls.
Tick ==
  /\ \E d \in TickSteps : now + d <= MaxTime /\ now' = now + d
  /\ UNCHANGED <<CLIENT_ID, CLIENT_SECRET, cache, ran, last, calls, titles, session, run, page>>

Next ==
  \/ FetchRealtimeTrend
  \/ FetchRealtimeShopping
  \/ FetchRealtimeBlog
  \/ FetchDatalabTrend
  \/ FetchShopSearch
  \/ Tick

Spec == Init /\ [][Next]_vars

(* ======================= properties of the fetches ===================== *)
Called == last.op # "none"
Sent == last.reqs # <<>>
Failure(result) == result.kind = "raise" \/ ~result.err.isNone

\* C1: two calls with identical arguments less than 600 seconds apart send
\* the upstream request once (the second returns the stored value without
\* I/O); a call 600 seconds or more after the entry was created sends the
\* request again and replaces the entry.
C1_OneRequestPerTTL ==
  Called =>
    /\ (last.prev.nreqs > 0 /\ last.t - last.prev.at < TTL) =>
         (last.reqs = <<>> /\ last.result = last.prev.result)
    /\ (Truthy(CLIENT_ID) /\ last.prevCreatedAt >= 0 /\ last.t - last.prevCreatedAt >= TTL) =>
         (Len(last.reqs) = 1 /\ cache[Key(last.op, last.args)].createdAt = last.t)

\* C2: a call that ended in a failure of any kind is answered again from
\* the cache: a second call with the same arguments within 600 seconds
\* returns the same error and sends no request.
C2_ErrorsAreCached ==
  (Called /\ last.prev.at >= 0 /\ Failure(last.prev.result) /\ last.t - last.prev.at < TTL) =>
    (last.reqs = <<>> /\ last.result = last.prev.result)

\* C5: when the client identifier or the client secret is absent, a fetch
\* returns the missing-credentials error with no table and sends nothing.
C5_MissingCredentialsFailFast ==
  (Called /\ (~Truthy(CLIENT_ID) \/ ~Truthy(CLIENT_SECRET))) =>
    (last.reqs = <<>> /\ last.result = Ret(NoTable, Err("API Key", 0, "")))

NonOK == Sent /\ last.resp.conn /\ last.resp.status # 200

\* C6 as stated: for a non-200 response the fetch returns no table and an
\* error that carries the status code and the body text of the response.
C6_ErrorCarriesStatusAndBody ==
  NonOK =>
    /\ last.result.kind = "return" /\ last.result.table.isNone /\ ~last.result.err.isNone
    /\ last.result.err.status = last.resp.status
    /\ last.result.err.text = last.resp.text

\* C6 amended: for a non-200 response every fetch returns no table and an
\* error that carries the status code; the body text is carried by
\* fetch_datalab_trend only, the other four fetches leave it out.
C6_ErrorCarriesStatus ==
  NonOK =>
    /\ last.result.kind = "return" /\ last.result.table.isNone /\ ~last.result.err.isNone
    /\ last.result.err.status = last.resp.status
    /\ last.result.err.text = IF last.op = "fetch_datalab_trend" THEN last.resp.text ELSE ""

C6_Witness == NonOK /\ last.op = "fetch_shop_search" /\ last.resp.status = 500

BadBody == Sent /\ last.resp.conn /\ last.resp.status = 200 /\ (~last.resp.isJson \/ ~last.resp.hasList)

\* C7: no fault escapes a fetch: whatever the upstream does, the call
\* returns a (value, error) pair, with an error set for a connection
\* failure and for a body that is not JSON or lacks results/items.
C7_NeverRaises ==
  Called =>
    /\ last.result.kind = "return"
    /\ ((Sent /\ ~last.resp.conn) \/ BadBody) => ~last.result.err.isNone

EmptyList ==
  Sent /\ last.resp.conn /\ last.resp.status = 200 /\ last.resp.isJson
       /\ last.resp.hasList /\ last.resp.list = <<>>

\* C8: a 200 response with an empty results/items list yields an empty
\* table (not the missing table of an error) with a no-data marker, and
\* neither the fetch nor the processing of its table raises.
C8_EmptyResultIsNotAnError ==
  EmptyList =>
    /\ last.result.kind = "return"
    /\ ~last.result.table.isNone /\ Empty(last.result.table)
    /\ ~last.result.err.isNone
    /\ last.shown # "raise"

(* ===================== keyword lists of any length ===================== *)
AllKw == <<"k1", "k2", "k3", "k4", "k5", "k6", "k7", "k8", "k9">>

\* The keyword lists a caller may pass: every run of consecutive keywords
\* of AllKw up to MaxKw, and the empty list.
KwLists ==
  {<<>>} \cup {SubSeq(AllKw, i, j) : i \in 1..MaxKw, j \in 1..MaxKw}

\* fetch_realtime_trend called with a keyword list of any length.
FetchRealtimeTrendList ==
  /\ calls < MaxBatchCalls
  /\ \E kws \in KwLists : \E resp \in TrendResponses(KeywordGroups(kws)) :
       Call("fetch_realtime_trend", kws, kws, fetch_realtime_trend(kws, resp), resp)

\* fetch_datalab_trend called with a keyword list of any length.
FetchDatalabTrendList ==
  /\ calls < MaxBatchCalls
  /\ \E kws \in KwLists : \E resp \in TrendResponses(KeywordGroups(Take(kws, MaxGroups))) :
       Call("fetch_datalab_trend", kws, kws, fetch_datalab_trend(kws, resp), resp)

NextBatch ==
  \/ FetchRealtimeTrendList
  \/ FetchDatalabTrendList

SpecBatch == Init /\ [][NextBatch]_vars

Min(a, b) == IF a < b THEN a ELSE b
CeilDiv(a, b) == (a + b - 1) \div b

GroupNames(req) == [i \in 1..Len(req.groups) |-> req.groups[i].groupName]

RECURSIVE AllGroupNames(_)
AllGroupNames(reqs) ==
  IF reqs = <<>> THEN <<>> ELSE GroupNames(Head(reqs)) \o AllGroupNames(Tail(reqs))

\* C3: in truncate mode (fetch_datalab_trend) a fetch that goes upstream
\* with a keyword list of length L sends exactly one trend request, whose
\* keyword groups are the first min(L,5) input keywords in input order, one
\* group per keyword; no keyword after the fifth is in any request.
C3_TruncateToFirstFive ==
  (last.op = "fetch_datalab_trend" /\ ~last.hit /\ Truthy(CLIENT_ID)) =>
    /\ Len(last.reqs) = 1
    /\ Len(last.reqs[1].groups) = Min(Len(last.input), 5)
    /\ \A i \in 1..Len(last.reqs[1].groups) :
         /\ i <= 5
         /\ last.reqs[1].groups[i].groupName = last.input[i]
         /\ last.reqs[1].groups[i].keywords = <<last.input[i]>>

C3_Witness ==
  /\ last.op = "fetch_datalab_trend" /\ Len(last.input) = 7
  /\ Len(last.reqs) = 1 /\ Len(last.reqs[1].groups) = 5

\* C4: in full-batching mode (fetch_realtime_trend) a fetch that goes
\* upstream with L >= 1 keywords sends ceil(L/5) requests of at most 5
\* keyword groups each, whose groups in order are the input list; with the
\* rows of every keyword in the table when the upstream answers each group.
C4_FullBatching ==
  (last.op = "fetch_realtime_trend" /\ ~last.hit /\ Truthy(CLIENT_ID) /\ Len(last.input) >= 1) =>
    /\ Len(last.reqs) = CeilDiv(Len(last.input), 5)
    /\ \A i \in 1..Len(last.reqs) : Len(last.reqs[i].groups) <= 5
    /\ AllGroupNames(last.reqs) = last.input

(* ============================ title clean-up =========================== *)
\* A title is a sequence of characters.
Alphabet == {"<", "/", "b", ">", "x"}
Titles == UNION {[1..n -> Alphabet] : n \in 0..MaxTitleLen}

B_OPEN == <<"<", "b", ">">>
B_CLOSE == <<"<", "/", "b", ">">>

\* str.replace(pat, ''): one pass from the left over the occurrences of pat
\* that do not overlap; what the removals bring together is not looked at.
RECURSIVE Remove(_, _)
Remove(s, pat) ==
  IF Len(s) < Len(pat) THEN s
  ELSE IF SubSeq(s, 1, Len(pat)) = pat
    THEN Remove(SubSeq(s, Len(pat) + 1, Len(s)), pat)
  ELSE <<Head(s)>> \o Remove(Tail(s), pat)

\* title.str.replace('<b>', '').str.replace('</b>', '')
CleanTitle(t) == Remove(Remove(t, B_OPEN), B_CLOSE)

InitTitle ==
  /\ Loaded
  /\ CLIENT_ID = "cred" /\ CLIENT_SECRET = "cred"
  /\ titles \in {[by |-> "none", raw |-> t, clean |-> <<>>] : t \in Titles}
  /\ session = NoSession /\ run = NoScriptRun /\ page = NoPage

CleanBy(who) ==
  /\ titles.by = "none"
  /\ titles' = [by |-> who, raw |-> titles.raw, clean |-> CleanTitle(titles.raw)]
  /\ UNCHANGED <<CLIENT_ID, CLIENT_SECRET, now, cache, ran, last, calls, session, run, page>>

\* dashboard.py, shopping tab
CleanShoppingTitle == CleanBy("shopping")
\* dashboard.py, blog tab
CleanBlogTitle == CleanBy("blog")
\* outerwear_dashboard.py, shopping tab
CleanShopTitle == CleanBy("shop")

NextTitle ==
  \/ CleanShoppingTitle
  \/ CleanBlogTitle
  \/ CleanShopTitle

SpecTitle == InitTitle /\ [][NextTitle]_vars

Contains(s, pat) ==
  \E i \in 1..Len(s) : i + Len(pat) - 1 <= Len(s) /\ SubSeq(s, i, i + Len(pat) - 1) = pat

\* s is t with some characters left out, the others in their order.
RECURSIVE IsSubsequence(_, _)
IsSubsequence(s, t) ==
  IF s = <<>> THEN TRUE
  ELSE IF t = <<>> THEN FALSE
  ELSE IF Head(s) = Head(t) THEN IsSubsequence(Tail(s), Tail(t))
  ELSE IsSubsequence(s, Tail(t))

\* C9: the cleaned title has no <b> and no </b> in it, also when markers
\* are nested so that a removal brings the pieces of another together;
\* the characters that stay are in their original order.
C9_NoMarkerLeft ==
  titles.by # "none" =>
    /\ ~Contains(titles.clean, B_OPEN)
    /\ ~Contains(titles.clean, B_CLOSE)
    /\ IsSubsequence(titles.clean, titles.raw)

(* ================= one run of the outerwear dashboard ================== *)
SelLists == {<<>>, <<"k1">>, <<"k1", "k2">>}

DashTrendResponses(groups) ==
  { Resp(TRUE, 401, "unauthorized", TRUE, FALSE, <<>>),
    Resp(TRUE, 200, "{results:[]}", TRUE, TRUE, <<>>),
    Resp(TRUE, 200, "{results:[...]}", TRUE, TRUE, ResultsFor(groups)) }

DashItemResponses ==
  { ConnFail,
    Resp(TRUE, 500, "server error", FALSE, FALSE, <<>>),
    Resp(TRUE, 200, "{items:[]}", TRUE, TRUE, <<>>),
    Resp(TRUE, 200, "{items:[...]}", TRUE, TRUE, <<Item("<b>A</b>", "5000")>>) }

Range(f) == {f[i] : i \in DOMAIN f}

\* t_df['keyword'] = k
TagRows(t, k) ==
  Table(t.cols \cup {"keyword"},
        [i \in 1..Len(t.rows) |->
           [keyword |-> k, title |-> t.rows[i].title, lprice |-> t.rows[i].lprice]])

\* for k in keywords: t_df, _ = fetch_shop_search(k); if t_df is not None:
\* ... temp_dfs.append(t_df).  An exception of a fetch ends the loop and
\* the script; the error text of a fetch that returned one goes to `_`.
RECURSIVE ShopLoop(_, _, _)
ShopLoop(ks, rS, st) ==
  IF ks = <<>> \/ st.raised THEN st
  ELSE LET k == Head(ks)
           r == CachedCall(st.cache, now, "fetch_shop_search", <<k>>,
                           fetch_shop_search(k, rS[k]))
       IN ShopLoop(Tail(ks), rS,
            [cache |-> r.cache,
             raised |-> r.result.kind = "raise",
             temp |-> IF r.result.kind = "return" /\ ~r.result.table.isNone
                        THEN Append(st.temp, [keyword |-> k, table |-> TagRows(r.result.table, k)])
                        ELSE st.temp,
             failed |-> IF Failure(r.result)
                          THEN Append(st.failed, [keyword |-> k, err |-> r.result.err])
                          ELSE st.failed])

RECURSIVE ConcatTables(_)
ConcatTables(ts) ==
  IF ts = <<>> THEN Table({}, <<>>)
  ELSE LET rest == ConcatTables(Tail(ts)) IN
    Table(Head(ts).table.cols \cup rest.cols, Head(ts).table.rows \o rest.rows)

\* A session check that is always true: the table is built in every run.
NeedsBuild_Always(s) == TRUE

\* if 'full_shop_df' not in st.session_state
NeedsBuild(s) == ~s.has_full

\* One run of the script from the sidebar down to the analysis tab, with
\* the user's selection sel, the button, the keyword picked in the shopping
\* tab and what the upstream answers to the trend request (rT) and to the
\* shop request of each keyword (rS).
OuterwearScript(sel, btn, target, rT, rS) ==
  LET selected == Take(sel, MaxGroups)
      trend == CachedCall(cache, now, "fetch_datalab_trend", selected,
                          fetch_datalab_trend(selected, rT))
      c1 == IF btn THEN trend.cache ELSE cache
      s1 == IF btn
              THEN [session EXCEPT !.has_trend = TRUE,
                                   !.outer_trend = trend.result.table,
                                   !.outer_err = trend.result.err,
                                   !.outer_selected = selected]
              ELSE session
      keywords == s1.outer_selected
      tabs == s1.outer_err.isNone /\ ~s1.outer_trend.isNone /\ ~Empty(s1.outer_trend)
      shop == CachedCall(c1, now, "fetch_shop_search", <<target>>,
                         fetch_shop_search(target, rS[target]))
      tab2raised == shop.result.kind = "raise"
      loop == ShopLoop(keywords, rS,
                       [cache |-> shop.cache, raised |-> FALSE, temp |-> <<>>, failed |-> <<>>])
      full == ConcatTables(loop.temp)
      lpriceMissing == loop.temp # <<>> /\ "lprice" \notin full.cols
      built == NeedsBuild(s1) /\ ~loop.raised /\ ~lpriceMissing
  IN IF ~btn /\ ~session.has_trend
       THEN /\ run' = [NoScriptRun EXCEPT !.ran = TRUE, !.stopped = TRUE]
            /\ UNCHANGED <<cache, session>>
     ELSE IF ~tabs
       THEN /\ run' = [NoScriptRun EXCEPT !.ran = TRUE, !.keywords = keywords,
                         !.shown = IF s1.outer_err.isNone THEN {}
                                   ELSE {[keyword |-> "", err |-> s1.outer_err]}]
            /\ cache' = c1
            /\ session' = s1
     ELSE IF tab2raised
       THEN /\ run' = [NoScriptRun EXCEPT !.ran = TRUE, !.keywords = keywords, !.raised = TRUE]
            /\ cache' = shop.cache
            /\ session' = s1
     ELSE /\ run' = [ran |-> TRUE, stopped |-> FALSE,
                     raised |-> NeedsBuild(s1) /\ (loop.raised \/ lpriceMissing),
                     loop |-> NeedsBuild(s1),
                     keywords |-> keywords,
                     shown |-> IF shop.result.err.isNone THEN {}
                               ELSE {[keyword |-> target, err |-> shop.result.err]},
                     ok |-> IF NeedsBuild(s1) THEN loop.temp ELSE <<>>,
                     failed |-> IF NeedsBuild(s1) THEN loop.failed ELSE <<>>]
          /\ cache' = IF NeedsBuild(s1) THEN loop.cache ELSE shop.cache
          /\ session' = IF built
                          THEN [s1 EXCEPT !.has_full = TRUE, !.full_shop_df = full]
                          ELSE s1

\* The user changes a widget or presses the button: the script runs again.
OuterwearRun ==
  /\ calls < MaxRuns
  /\ calls' = calls + 1
  /\ \E sel \in SelLists, btn \in BOOLEAN :
       LET kws == IF btn THEN Take(sel, MaxGroups) ELSE session.outer_selected
           opts == IF kws = <<>> THEN {"k1"} ELSE Range(kws)
       IN \E target \in opts :
          \E rT \in DashTrendResponses(KeywordGroups(Take(sel, MaxGroups))) :
          \E rS \in [opts -> DashItemResponses] :
            OuterwearScript(sel, btn, target, rT, rS)
  /\ UNCHANGED <<CLIENT_ID, CLIENT_SECRET, now, ran, last, titles, page>>

\* Time passes between two runs, long enough for the cache to expire.
Wait ==
  /\ now + TTL <= MaxTime /\ now' = now + TTL
  /\ UNCHANGED <<CLIENT_ID, CLIENT_SECRET, cache, ran, last, calls, titles, session, run, page>>

NextDash ==
  \/ OuterwearRun
  \/ Wait

SpecDash == Init /\ [][NextDash]_vars

RowsOf(t) == {t.rows[i] : i \in 1..Len(t.rows)}

\* C10: when the loop over the selected keywords builds the combined
\* shopping table and the fetch of some keyword fails, the rows of every
\* keyword whose fetch gave a table are in the combined table kept in the
\* session, and every keyword's failure is shown to the user.
C10_PartialSuccessSurfaced ==
  (run.loop /\ run.failed # <<>>) =>
    /\ \A i \in 1..Len(run.ok) :
         session.has_full /\ RowsOf(run.ok[i].table) \subseteq RowsOf(session.full_shop_df)
    /\ \A i \in 1..Len(run.failed) : run.failed[i] \in run.shown

(* ==================== one run of dashboard.py ========================== *)
\* The text of the keyword box is a sequence of characters, and so is a
\* keyword cut out of it.
TextAlphabet == {"a", ",", " "}
Texts == UNION {[1..n -> TextAlphabet] : n \in 0..MaxTextLen}

\* target_kws.split(','): the pieces between the commas; a text with no
\* comma, the empty text too, is one piece.
RECURSIVE SplitFrom(_, _, _)
SplitFrom(s, cur, acc) ==
  IF s = <<>> THEN Append(acc, cur)
  ELSE IF Head(s) = "," THEN SplitFrom(Tail(s), <<>>, Append(acc, cur))
  ELSE SplitFrom(Tail(s), Append(cur, Head(s)), acc)

Split(s) == SplitFrom(s, <<>>, <<>>)

\* k.strip()
RECURSIVE LStrip(_)
LStrip(w) == IF w # <<>> /\ Head(w) = " " THEN LStrip(Tail(w)) ELSE w

RECURSIVE RStrip(_)
RStrip(w) ==
  IF w # <<>> /\ w[Len(w)] = " " THEN RStrip(SubSeq(w, 1, Len(w) - 1)) ELSE w

Strip(w) == RStrip(LStrip(w))

\* keywords = [k.strip() for k in target_kws.split(',')]
ParseKeywords(text) ==
  LET pieces == Split(text) IN [i \in 1..Len(pieces) |-> Strip(pieces[i])]

DefaultKw == <<"a">>

\* main_kw = keywords[0] if keywords else <default>
MainKw(keywords) == IF keywords # <<>> THEN keywords[1] ELSE DefaultKw

\* The script of dashboard.py from the sidebar through the three tabs; an
\* exception in a tab ends the run there.
DashboardScript(text, rT, rS, rB) ==
  LET keywords == ParseKeywords(text)
      main_kw == MainKw(keywords)
      t == CachedCall(cache, now, "fetch_realtime_trend", keywords,
                      fetch_realtime_trend(keywords, rT))
      tDead == Consume("fetch_realtime_trend", t.result) = "raise"
      s == CachedCall(t.cache, now, "fetch_realtime_shopping", <<main_kw>>,
                      fetch_realtime_shopping(main_kw, rS))
      sDead == Consume("fetch_realtime_shopping", s.result) = "raise"
      b == CachedCall(s.cache, now, "fetch_realtime_blog", <<main_kw>>,
                      fetch_realtime_blog(main_kw, rB))
      bDead == Consume("fetch_realtime_blog", b.result) = "raise"
  IN /\ cache' = IF tDead THEN t.cache ELSE IF sDead THEN s.cache ELSE b.cache
     /\ page' = [ran |-> TRUE, text |-> text, keywords |-> keywords, main_kw |-> main_kw,
                 reqs |-> IF tDead THEN t.reqs
                          ELSE IF sDead THEN t.reqs \o s.reqs
                          ELSE t.reqs \o s.reqs \o b.reqs,
                 raised |-> tDead \/ sDead \/ bDead,
                 trend |-> t.result]

\* The user edits the keyword box: the script runs.
DashboardRun ==
  /\ calls < MaxBatchCalls
  /\ calls' = calls + 1
  /\ \E text \in Texts :
       \E rT \in DashTrendResponses(KeywordGroups(ParseKeywords(text))) :
       \E rS \in DashItemResponses, rB \in DashItemResponses :
         DashboardScript(text, rT, rS, rB)
  /\ UNCHANGED <<CLIENT_ID, CLIENT_SECRET, now, ran, last, titles, session, run>>

\* The user presses the button of the outerwear dashboard with nothing
\* selected: fetch_datalab_trend is called with the empty list.
FetchDatalabTrendEmpty ==
  /\ calls < MaxBatchCalls
  /\ \E resp \in DashTrendResponses(<<>>) :
       Call("fetch_datalab_trend", <<>>, <<>>, fetch_datalab_trend(<<>>, resp), resp)

NextInput ==
  \/ DashboardRun
  \/ FetchDatalabTrendEmpty

SpecInput == Init /\ [][NextInput]_vars

\* req asks for the empty-string keyword: as the query of a search, or as
\* the keyword of a trend group.
EmptyKwRequest(req) ==
  IF req.url = "datalab/search"
    THEN \E i \in 1..Len(req.groups) : req.groups[i].keywords = << <<>> >>
    ELSE req.query = <<>>

\* C11: an empty keyword list gives no keyword groups and a no-data
\* outcome, not an error: the trend fetch called with the empty list sends no
\* request that carries a keyword group and, when the upstream answers 200
\* with no results, returns the empty table with the no-data marker; and a
\* run of the dashboard with an empty keyword box sends no request for the
\* empty-string keyword.
C11_EmptyInputIsNoData ==
  /\ (last.op = "fetch_datalab_trend" /\ last.input = <<>> /\ ~last.hit /\ Truthy(CLIENT_ID)) =>
       /\ \A i \in 1..Len(last.reqs) : last.reqs[i].groups = <<>>
       /\ (last.resp.status = 200 /\ last.resp.isJson) =>
            last.result = Ret(Table({}, <<>>), Err("no data", 0, ""))
  /\ (page.ran /\ page.text = <<>>) =>
       \A i \in 1..Len(page.reqs) : ~EmptyKwRequest(page.reqs[i])

(* ============================ no retries =============================== *)
\* C12: no fetch retries: a call that misses the cache sends at most one
\* upstream request, whatever the status or the failure, and none when the
\* client identifier is missing.
C12_AtMostOneRequest ==
  (Called /\ ~last.hit) =>
    /\ Len(last.reqs) <= 1
    /\ ~Truthy(CLIENT_ID) => last.reqs = <<>>

C12_Witness ==
  /\ Called /\ ~last.hit /\ last.op = "fetch_shop_search"
  /\ Len(last.reqs) = 1 /\ ~last.resp.conn

(* ======================= rows of a trend table ========================= *)
TrendOps == {"fetch_realtime_trend", "fetch_datalab_trend"}

\* A 200 trend response of the expected shape with at least one result.
TrendShape ==
  /\ Sent /\ last.op \in TrendOps
  /\ last.resp.conn /\ last.resp.status = 200 /\ last.resp.isJson /\ last.resp.hasList
  /\ last.resp.list # <<>>
  /\ \A i \in 1..Len(last.resp.list) : last.resp.list[i].hasData

\* The number of data points of the entries before entry i.
RECURSIVE DataBefore(_, _)
DataBefore(list, i) ==
  IF i <= 1 THEN 0 ELSE DataBefore(list, i - 1) + Len(list[i - 1].data)

\* C13: for a 200 trend response with a non-empty results list the table
\* has one row per data point of each entry (as many rows as the data
\* lengths add up to), each row has the title of its entry as keyword, and
\* the rows are in the order received: entries in response order, the
\* points of an entry in their order.
C13_OneRowPerDataPoint ==
  TrendShape =>
    LET list == last.resp.list
        rows == last.result.table.rows
    IN /\ last.result.kind = "return" /\ ~last.result.table.isNone
       /\ Len(rows) = DataBefore(list, Len(list) + 1)
       /\ \A i \in 1..Len(list) : \A j \in 1..Len(list[i].data) :
            rows[DataBefore(list, i) + j] =
              [period |-> list[i].data[j].period, ratio |-> list[i].data[j].ratio,
               keyword |-> list[i].title]

C13_Witness ==
  /\ TrendShape /\ last.resp.list = UnevenResults
  /\ Len(last.result.table.rows) = 3
  /\ last.result.table.rows[1].keyword = "k2"

====
